---- MODULE Spec2Model ----
(***************************************************************************)
(* Model of ansible/inventory/dynamic.py: the TerraformInventory builder   *)
(* (get_terraform_output, parse_ansible_inventory,                         *)
(* _parse_individual_outputs, get_inventory, get_host) and main().         *)
(*                                                                         *)
(* JSON / Python values are tagged records:                                *)
(*   Obj(ps)  a dict, ps the insertion-ordered sequence of <<key, value>>  *)
(*   Lst(l)   a list                                                       *)
(*   Str(s)   a str                                                        *)
(*   Num(n)   an int                                                       *)
(*   None     None / JSON null                                             *)
(* An evaluation that can raise yields [exc, v] (or [exc, b] for a test);  *)
(* exc = "none" when it did not raise.                                     *)
(***************************************************************************)
EXTENDS Integers, Sequences, FiniteSets, TLC

VARIABLES inventory, tf_outputs, op, hostname, result, path, calls, pc

vars == <<inventory, tf_outputs, op, hostname, result, path, calls, pc>>

----------------------------------------------------------------------------
(* Values *)

Obj(ps) == [t |-> "obj", ps |-> ps]
Lst(l) == [t |-> "lst", l |-> l]
Str(s) == [t |-> "str", s |-> s]
Num(n) == [t |-> "num", n |-> n]
None == [t |-> "null"]

EmptyDict == Obj(<<>>)
EmptyList == Lst(<<>>)

Ok(v) == [exc |-> "none", v |-> v]
Raise(e) == [exc |-> e, v |-> None]
Test(b) == [exc |-> "none", b |-> b]
RaiseTest(e) == [exc |-> e, b |-> FALSE]

(* key in d, for a dict d *)
HasKey(d, k) == \E i \in 1..Len(d.ps) : d.ps[i][1] = k

(* d[k] for a dict d that has k *)
Lookup(d, k) == d.ps[CHOOSE i \in 1..Len(d.ps) : d.ps[i][1] = k][2]

(* list(d.keys()): the keys in insertion order *)
Keys(d) == [i \in 1..Len(d.ps) |-> d.ps[i][1]]

(* d[k] = v: replaces the value in place, or appends a new key *)
Put(d, k, v) ==
    IF HasKey(d, k)
    THEN Obj([i \in 1..Len(d.ps) |-> IF d.ps[i][1] = k THEN <<k, v>> ELSE d.ps[i]])
    ELSE Obj(Append(d.ps, <<k, v>>))

(* d.get(k, default) for a dict d *)
Get(d, k, default) == IF HasKey(d, k) THEN Lookup(d, k) ELSE default

(* x.get(k, default): only a dict has .get *)
DictGet(x, k, default) ==
    IF x.t = "obj" THEN Ok(Get(x, k, default)) ELSE Raise("AttributeError")

(* x[k] with a str key k *)
Subscript(x, k) ==
    IF x.t = "obj"
    THEN IF HasKey(x, k) THEN Ok(Lookup(x, k)) ELSE Raise("KeyError")
    ELSE Raise("TypeError")

(* k in x with a str key k; a str x (substring test) is outside the *)
(* snapshots enumerated below *)
Contains(x, k) ==
    CASE x.t = "obj" -> Test(HasKey(x, k))
      [] x.t = "lst" -> Test(\E i \in 1..Len(x.l) : x.l[i] = Str(k))
      [] x.t \in {"num", "null"} -> RaiseTest("TypeError")

(* bool(x) *)
Truthy(x) ==
    CASE x.t = "obj" -> Len(x.ps) > 0
      [] x.t = "lst" -> Len(x.l) > 0
      [] x.t = "str" -> Len(x.s) > 0
      [] x.t = "num" -> x.n # 0
      [] x.t = "null" -> FALSE

(* len(x) *)
PyLen(x) ==
    CASE x.t = "obj" -> Ok(Num(Len(x.ps)))
      [] x.t = "lst" -> Ok(Num(Len(x.l)))
      [] x.t = "str" -> Ok(Num(Len(x.s)))
      [] x.t \in {"num", "null"} -> Raise("TypeError")

(* the i-th item that iterating x yields (1-based), for a list or a str *)
IterItem(x, i) ==
    CASE x.t = "lst" -> x.l[i]
      [] x.t = "str" -> Str(SubSeq(x.s, i, i))

----------------------------------------------------------------------------
(* TerraformInventory *)

(* __init__: self.inventory *)
InitialInventory == Obj(<< <<"_meta", Obj(<< <<"hostvars", EmptyDict>> >>)>> >>)

(* the degraded document get_inventory assigns when there are no outputs *)
EmptyInventory ==
    Obj(<< <<"all", Obj(<< <<"hosts", EmptyList>>, <<"vars", EmptyDict>> >>)>>,
           <<"_meta", Obj(<< <<"hostvars", EmptyDict>> >>)>> >>)

(* self.inventory['_meta']['hostvars'] *)
HostVars(inv) == Lookup(Lookup(inv, "_meta"), "hostvars")

(* a slip that keeps a host's first mapping (setdefault) *)
SetHostVarsKeepFirst(inv, host, v) ==
    IF HasKey(HostVars(inv), host) THEN inv
    ELSE Put(inv, "_meta", Put(Lookup(inv, "_meta"), "hostvars", Put(HostVars(inv), host, v)))

(* self.inventory['_meta']['hostvars'][host] = v *)
SetHostVars(inv, host, v) ==
    Put(inv, "_meta", Put(Lookup(inv, "_meta"), "hostvars", Put(HostVars(inv), host, v)))

(* {'hosts': [...], 'vars': {...}} *)
Group(names, groupvars) ==
    Obj(<< <<"hosts", Lst([i \in 1..Len(names) |-> Str(names[i])])>>,
           <<"vars", groupvars>> >>)

PreferredWebVars ==
    Obj(<< <<"ansible_user", Str("ubuntu")>>,
           <<"ansible_ssh_private_key_file", Str("~/.ssh/id_rsa")>>,
           <<"server_type", Str("webserver")>> >>)

PreferredAppVars ==
    Obj(<< <<"ansible_user", Str("ubuntu")>>,
           <<"ansible_ssh_private_key_file", Str("~/.ssh/id_rsa")>>,
           <<"server_type", Str("appserver")>> >>)

DatabaseVars == Obj(<< <<"server_type", Str("database")>> >>)

FallbackWebVars ==
    Obj(<< <<"ansible_user", Str("ubuntu")>>, <<"server_type", Str("webserver")>> >>)

FallbackAppVars ==
    Obj(<< <<"ansible_user", Str("ubuntu")>>, <<"server_type", Str("appserver")>> >>)

(* A statement maps a builder state [inv, exc] to the next one; once an *)
(* exception is raised the remaining statements are skipped. *)
Running(inv) == [inv |-> inv, exc |-> "none"]
Raised(st, e) == [inv |-> st.inv, exc |-> e]

(* for host, vars in hosts.items(): hostvars[host] = vars *)
RECURSIVE AddHostVars(_, _, _)
AddHostVars(inv, hosts, i) ==
    IF i > Len(hosts.ps) THEN inv
    ELSE AddHostVars(SetHostVars(inv, hosts.ps[i][1], hosts.ps[i][2]), hosts, i + 1)

(* a slip that leaves out the loop over hosts.items() *)
AssignGroupWithoutHostVars(st, g, hosts, groupvars) ==
    IF hosts.t # "obj" THEN Raised(st, "AttributeError")
    ELSE Running(Put(st.inv, g, Group(Keys(hosts), groupvars)))

(* the hosts of one recognised sub-group: the group, then its host vars; *)
(* .keys() of a value that is no dict raises before anything is assigned *)
AssignGroup(st, g, hosts, groupvars) ==
    IF hosts.t # "obj" THEN Raised(st, "AttributeError")
    ELSE Running(AddHostVars(Put(st.inv, g, Group(Keys(hosts), groupvars)), hosts, 1))

(* if g in children and 'hosts' in children[g]: ... *)
ProcessGroup(st, children, g, groupvars) ==
    IF st.exc # "none" THEN st
    ELSE LET inChildren == Contains(children, g) IN
         IF inChildren.exc # "none" THEN Raised(st, inChildren.exc)
         ELSE IF ~inChildren.b THEN st
         ELSE LET sub == Subscript(children, g) IN
              IF sub.exc # "none" THEN Raised(st, sub.exc)
              ELSE LET hasHosts == Contains(sub.v, "hosts") IN
                   IF hasHosts.exc # "none" THEN Raised(st, hasHosts.exc)
                   ELSE IF ~hasHosts.b THEN st
                   ELSE LET hosts == Subscript(sub.v, "hosts") IN
                        IF hosts.exc # "none" THEN Raised(st, hosts.exc)
                        ELSE AssignGroup(st, g, hosts.v, groupvars)

(* if 'vars' in inventory_data['all']: self.inventory['all'] = {'vars': ...} *)
GlobalVars(st, all) ==
    IF st.exc # "none" THEN st
    ELSE IF ~Contains(all, "vars").b THEN st
    ELSE LET v == Subscript(all, "vars") IN
         IF v.exc # "none" THEN Raised(st, v.exc)
         ELSE Running(Put(st.inv, "all", Obj(<< <<"vars", v.v>> >>)))

(* the body of: if 'all' in inventory_data and 'children' in ...['all'] *)
ExtractGroups(st, all, children) ==
    GlobalVars(
        ProcessGroup(
            ProcessGroup(
                ProcessGroup(st, children, "webservers", PreferredWebVars),
                children, "appservers", PreferredAppVars),
            children, "databases", DatabaseVars),
        all)

(* inventory_data, once decoded: lines 51-101 *)
ExtractInventoryData(st, data) ==
    LET hasAll == Contains(data, "all") IN
    IF hasAll.exc # "none" THEN Raised(st, hasAll.exc)
    ELSE IF ~hasAll.b THEN st
    ELSE LET all == Subscript(data, "all") IN
         IF all.exc # "none" THEN Raised(st, all.exc)
         ELSE LET hasChildren == Contains(all.v, "children") IN
              IF hasChildren.exc # "none" THEN Raised(st, hasChildren.exc)
              ELSE IF ~hasChildren.b THEN st
              ELSE LET children == Subscript(all.v, "children") IN
                   IF children.exc # "none" THEN Raised(st, children.exc)
                   ELSE ExtractGroups(st, all.v, children.v)

(* the texts json.loads is given as a str-valued ansible_inventory, and *)
(* the documents they denote; any other text is not JSON *)
TextEmpty == "{}"
TextNumber == "7"
TextVarsOnly == "{\"all\": {\"vars\": {\"env\": \"prod\"}}}"
TextWeb ==
    "{\"all\": {\"children\": {\"webservers\": {\"hosts\": {\"h1\": {\"ansible_host\": \"10.0.0.1\"}}}}}}"

EnvVars == Obj(<< <<"env", Str("prod")>> >>)
HostA == Obj(<< <<"ansible_host", Str("10.0.0.1")>> >>)
HostB == Obj(<< <<"ansible_host", Str("10.0.0.2")>> >>)

DocVarsOnly == Obj(<< <<"all", Obj(<< <<"vars", EnvVars>> >>)>> >>)
DocWeb ==
    Obj(<< <<"all", Obj(<< <<"children", Obj(<< <<"webservers",
        Obj(<< <<"hosts", Obj(<< <<"h1", HostA>> >>)>> >>)>> >>)>> >>)>> >>)

(* json.loads(s) *)
JsonLoads(s) ==
    CASE s = TextEmpty -> Ok(EmptyDict)
      [] s = TextNumber -> Ok(Num(7))
      [] s = TextVarsOnly -> Ok(DocVarsOnly)
      [] s = TextWeb -> Ok(DocWeb)
      [] OTHER -> Raise("JSONDecodeError")

(* the branch taken when 'ansible_inventory' in tf_outputs: lines 46-101 *)
PreferredPath(st, tf) ==
    LET value == Subscript(Lookup(tf, "ansible_inventory"), "value") IN
    IF value.exc # "none" THEN Raised(st, value.exc)
    ELSE LET data == IF value.v.t = "str" THEN JsonLoads(value.v.s) ELSE value IN
         IF data.exc # "none" THEN Raised(st, data.exc)
         ELSE ExtractInventoryData(st, data.v)

(* a slip that names hosts by the 0-based index: f"{prefix}{i}" *)
HostNameZeroBased(prefix, i) == prefix \o ToString(i - 1)

(* f"{prefix}{i+1}" for the 0-based index i; here i is already 1-based *)
HostName(prefix, i) == prefix \o ToString(i)

(* for i, ip in enumerate(ips): hostvars[f"{prefix}{i+1}"] = {...} *)
RECURSIVE AddAddressHosts(_, _, _, _)
AddAddressHosts(inv, prefix, ips, i) ==
    IF i > PyLen(ips).v.n THEN inv
    ELSE AddAddressHosts(
             SetHostVars(inv, HostName(prefix, i),
                 Obj(<< <<"ansible_host", IterItem(ips, i)>>,
                        <<"ansible_user", Str("ubuntu")>> >>)),
             prefix, ips, i + 1)

(* the web servers (lines 111-126) and the app servers (lines 129-144) *)
AddressGroup(st, tf, output, g, prefix, groupvars) ==
    IF st.exc # "none" THEN st
    ELSE LET ips == DictGet(Get(tf, output, EmptyDict), "value", EmptyList) IN
         IF ips.exc # "none" THEN Raised(st, ips.exc)
         ELSE IF ~Truthy(ips.v) THEN st
         ELSE LET n == PyLen(ips.v) IN
              IF n.exc # "none" THEN Raised(st, n.exc)
              ELSE Running(AddAddressHosts(
                       Put(st.inv, g,
                           Group([i \in 1..n.v.n |-> HostName(prefix, i)], groupvars)),
                       prefix, ips.v, 1))

(* a slip that cuts at the last colon: s.rsplit(':', 1)[0] *)
SplitLast(s) ==
    LET colons == {i \in 1..Len(s) : SubSeq(s, i, i) = ":"} IN
    IF colons = {} THEN s
    ELSE SubSeq(s, 1, (CHOOSE i \in colons : \A j \in colons : i >= j) - 1)

(* s.split(':')[0]: the text before the first colon, all of s without one *)
SplitFirst(s) ==
    LET colons == {i \in 1..Len(s) : SubSeq(s, i, i) = ":"} IN
    IF colons = {} THEN s
    ELSE SubSeq(s, 1, (CHOOSE i \in colons : \A j \in colons : i <= j) - 1)

DefaultDbEngine == Str("postgres")
DefaultDbPort == 5432

(* hostvars['database'] = {...}: the dict is built before it is assigned *)
DatabaseHost(st, tf, endpoint) ==
    IF endpoint.t # "str" THEN Raised(st, "AttributeError")
    ELSE LET engine == DictGet(Get(tf, "database_engine", EmptyDict), "value",
                               DefaultDbEngine) IN
         IF engine.exc # "none" THEN Raised(st, engine.exc)
         ELSE LET port == DictGet(Get(tf, "database_port", EmptyDict), "value",
                                  Num(DefaultDbPort)) IN
              IF port.exc # "none" THEN Raised(st, port.exc)
              ELSE Running(SetHostVars(st.inv, "database",
                       Obj(<< <<"ansible_host", Str(SplitFirst(endpoint.s))>>,
                              <<"db_engine", engine.v>>,
                              <<"db_port", port.v>> >>)))

(* the database (lines 147-160) *)
DatabaseGroup(st, tf) ==
    IF st.exc # "none" THEN st
    ELSE LET endpoint == DictGet(Get(tf, "database_endpoint", EmptyDict), "value",
                                 None) IN
         IF endpoint.exc # "none" THEN Raised(st, endpoint.exc)
         ELSE IF ~Truthy(endpoint.v) THEN st
         ELSE DatabaseHost(
                  Running(Put(st.inv, "databases", Group(<<"database">>, DatabaseVars))),
                  tf, endpoint.v)

(* tf_outputs.get('infrastructure_info', {}).get('value', {}).get(k, default) *)
InfrastructureInfo(tf, k, default) ==
    LET info == DictGet(Get(tf, "infrastructure_info", EmptyDict), "value", EmptyDict) IN
    IF info.exc # "none" THEN info ELSE DictGet(info.v, k, default)

(* the common vars (lines 163-169) *)
CommonVars(st, tf) ==
    IF st.exc # "none" THEN st
    ELSE LET environment == InfrastructureInfo(tf, "environment", Str("unknown")) IN
         IF environment.exc # "none" THEN Raised(st, environment.exc)
         ELSE LET region == InfrastructureInfo(tf, "region", Str("us-west-2")) IN
              IF region.exc # "none" THEN Raised(st, region.exc)
              ELSE Running(Put(st.inv, "all",
                       Obj(<< <<"vars",
                           Obj(<< <<"environment", environment.v>>,
                                  <<"project_name", Str("iac-solution")>>,
                                  <<"aws_region", region.v>> >>)>> >>)))

_parse_individual_outputs(st, tf) ==
    CommonVars(
        DatabaseGroup(
            AddressGroup(
                AddressGroup(st, tf, "web_instance_public_ips", "webservers", "web-",
                             FallbackWebVars),
                tf, "app_instance_private_ips", "appservers", "app-", FallbackAppVars),
            tf),
        tf)

(* whether parse_ansible_inventory hands tf_outputs to the fallback *)
UsesFallback(tf) == ~HasKey(tf, "ansible_inventory")

(* a builder state with the transformation that produced it *)
Traced(st, p) == [inv |-> st.inv, exc |-> st.exc, path |-> p]

(* a slip that drops the else: the fallback runs after the preferred path *)
parse_ansible_inventory_no_else(st, tf) ==
    IF UsesFallback(tf) THEN Traced(_parse_individual_outputs(st, tf), "fallback")
    ELSE Traced(_parse_individual_outputs(PreferredPath(st, tf), tf), "fallback")

parse_ansible_inventory(st, tf) ==
    IF UsesFallback(tf) THEN Traced(_parse_individual_outputs(st, tf), "fallback")
    ELSE Traced(PreferredPath(st, tf), "preferred")

(* The external command as the environment decides it: whether the process *)
(* could be started at all, its exit status, whether its standard output   *)
(* is JSON, and the document that output denotes.                          *)
Command(started, returncode, parses, doc) ==
    [started |-> started, returncode |-> returncode, parses |-> parses, doc |-> doc]

(* subprocess.run(..., check=True) then json.loads(result.stdout); only *)
(* CalledProcessError and JSONDecodeError are caught *)
get_terraform_output(cmd) ==
    IF ~cmd.started THEN Raise("FileNotFoundError")
    ELSE IF cmd.returncode # 0 THEN Ok(EmptyDict)
    ELSE IF ~cmd.parses THEN Ok(EmptyDict)
    ELSE Ok(cmd.doc)

(* a slip that updates the document in place when there are no outputs *)
get_inventory_in_place(inv, cmd) ==
    LET out == get_terraform_output(cmd) IN
    IF out.exc # "none"
    THEN [inv |-> inv, exc |-> out.exc, tf |-> None, path |-> "none"]
    ELSE IF Truthy(out.v)
    THEN LET st == parse_ansible_inventory(Running(inv), out.v) IN
         [inv |-> st.inv, exc |-> st.exc, tf |-> out.v, path |-> st.path]
    ELSE [inv |-> Put(inv, "all", Obj(<< <<"hosts", EmptyList>>, <<"vars", EmptyDict>> >>)),
          exc |-> "none", tf |-> out.v, path |-> "none"]

(* get_inventory on a builder holding inv: the builder afterwards, the *)
(* exception that left it (if any), the outputs acquired and whether a  *)
(* transformation ran and which *)
get_inventory(inv, cmd) ==
    LET out == get_terraform_output(cmd) IN
    IF out.exc # "none"
    THEN [inv |-> inv, exc |-> out.exc, tf |-> None, path |-> "none"]
    ELSE IF Truthy(out.v)
    THEN LET st == parse_ansible_inventory(Running(inv), out.v) IN
         [inv |-> st.inv, exc |-> st.exc, tf |-> out.v, path |-> st.path]
    ELSE [inv |-> EmptyInventory, exc |-> "none", tf |-> out.v, path |-> "none"]

(* a slip that leaves out the default of the last .get *)
HostLookupWithoutDefault(inv, h) ==
    Get(Get(Get(inv, "_meta", EmptyDict), "hostvars", EmptyDict), h, None)

(* inventory.get('_meta', {}).get('hostvars', {}).get(hostname, {}) *)
HostLookup(inv, h) ==
    Get(Get(Get(inv, "_meta", EmptyDict), "hostvars", EmptyDict), h, EmptyDict)

----------------------------------------------------------------------------
(* The outputs the external command is given to print *)

MaxIps == 2
MaxHosts == 2
MaxCalls == 2

(* an output entry {"value": v} *)
Entry(v) == Obj(<< <<"value", v>> >>)

(* an output that is absent, or present with one of the entries *)
Optional(k, entries) == {<<>>} \cup {<< <<k, e>> >> : e \in entries}

Addresses == {"10.0.0.1", "10.0.0.2"}

AddressLists ==
    UNION {{Lst([i \in 1..n |-> Str(l[i])]) : l \in [1..n -> Addresses]} : n \in 0..MaxIps}

(* address lists, and an entry without "value", a null, a number, a bare *)
(* str and an entry that is itself a list *)
WebEntries ==
    {Entry(l) : l \in AddressLists}
        \cup {EmptyDict, Entry(None), Entry(Num(5)), Entry(Str("1.2")), EmptyList}

AppEntries == {Entry(l) : l \in AddressLists}

EndpointEntries ==
    {Entry(Str("db.example.com:5432")), Entry(Str("db.example.com")),
     Entry(Str("db:54:32")), Entry(Str("")), EmptyDict, Entry(Num(5432))}

EngineEntries == {Entry(Str("mysql")), EmptyDict}
PortEntries == {Entry(Num(3306))}

(* the database outputs: none, an endpoint alone in each shape, or a *)
(* well-formed endpoint with each choice of engine and port *)
DatabaseOutputs ==
    Optional("database_endpoint", EndpointEntries)
        \cup {<< <<"database_endpoint", Entry(Str("db.example.com:5432"))>> >> \o e \o p :
                 e \in Optional("database_engine", EngineEntries),
                 p \in Optional("database_port", PortEntries)}

InfoEntries ==
    {Entry(Obj(<< <<"environment", Str("prod")>>, <<"region", Str("eu-west-1")>> >>)),
     Entry(Obj(<< <<"environment", Str("prod")>> >>)),
     Entry(Str("prod"))}

FlatSnapshots ==
    {Obj(w \o a \o d \o i) :
        w \in Optional("web_instance_public_ips", WebEntries),
        a \in Optional("app_instance_private_ips", AppEntries),
        d \in DatabaseOutputs,
        i \in Optional("infrastructure_info", InfoEntries)}

(* a snapshot with every flat output well formed *)
FullFlat ==
    Obj(<< <<"web_instance_public_ips", Entry(Lst(<<Str("10.0.0.1"), Str("10.0.0.2")>>))>>,
           <<"app_instance_private_ips", Entry(Lst(<<Str("10.0.0.2")>>))>>,
           <<"database_endpoint", Entry(Str("db.example.com:5432"))>>,
           <<"infrastructure_info",
             Entry(Obj(<< <<"environment", Str("prod")>>, <<"region", Str("eu-west-1")>> >>))>> >>)

HostKeys == {HostName("h", i) : i \in 1..MaxHosts}
HostVarChoices == {HostA, HostB}

(* the "hosts" mappings of at most n hosts, keys distinct, in every order *)
HostMaps(n) ==
    UNION {{Obj([i \in 1..k |-> <<ks[i], vs[i]>>]) :
               ks \in {f \in [1..k -> HostKeys] : \A i, j \in 1..k : f[i] = f[j] => i = j},
               vs \in [1..k -> HostVarChoices]} : k \in 0..n}

Hosts(m) == Obj(<< <<"hosts", m>> >>)

(* a sub-group: with a hosts mapping, without "hosts", or with a hosts list *)
WebChildren ==
    Optional("webservers",
        {Hosts(m) : m \in HostMaps(MaxHosts)} \cup {EmptyDict, Hosts(Lst(<<Str("h1")>>))})
AppChildren == Optional("appservers", {Hosts(m) : m \in HostMaps(1)})
DatabaseChildren ==
    Optional("databases", {Hosts(Obj(<< <<"h1", HostB>> >>)), EmptyDict})

AllEntries ==
    {Obj(<< <<"children", Obj(w \o a \o d)>> >> \o v) :
        w \in WebChildren, a \in AppChildren, d \in DatabaseChildren,
        v \in Optional("vars", {EnvVars})}
      \cup {EmptyDict, Obj(<< <<"vars", EnvVars>> >>), Num(1),
            Obj(<< <<"children", EmptyList>>, <<"vars", EnvVars>> >>),
            Obj(<< <<"children", None>> >>)}

(* the values of the ansible_inventory output: documents, documents *)
(* encoded as a str, and values of other shapes *)
InventoryEntries ==
    {Entry(Obj(<< <<"all", a>> >>)) : a \in AllEntries}
      \cup {Entry(Str(s)) : s \in {TextEmpty, TextNumber, TextVarsOnly, TextWeb, "not json"}}
      \cup {EmptyDict, EmptyList, Entry(EmptyDict), Entry(EmptyList), Entry(None)}

PreferredSnapshots ==
    {Obj(<< <<"ansible_inventory", e>> >> \o f.ps) :
        e \in InventoryEntries, f \in {EmptyDict, FullFlat}}

Snapshots == FlatSnapshots \cup PreferredSnapshots

(* what running the command can come to *)
Commands ==
    {Command(FALSE, 0, FALSE, EmptyDict), Command(TRUE, 1, FALSE, EmptyDict),
     Command(TRUE, 0, FALSE, EmptyDict)}
      \cup {Command(TRUE, 0, TRUE, s) : s \in Snapshots}

HostNames == {"h1", "web-1", "nohost"}

----------------------------------------------------------------------------
(* Operations *)

NoResult == [kind |-> "none", doc |-> None, exc |-> "none"]
Printed(doc) == [kind |-> "json", doc |-> doc, exc |-> "none"]
Uncaught(e) == [kind |-> "fault", doc |-> None, exc |-> e]
Help == [kind |-> "help", doc |-> None, exc |-> "none"]

(* get_host on a builder holding inv: get_inventory, then the lookup *)
get_host(inv, cmd, h) ==
    LET r == get_inventory(inv, cmd) IN
    [inv |-> r.inv, exc |-> r.exc, tf |-> r.tf, path |-> r.path,
     v |-> IF r.exc = "none" THEN HostLookup(r.inv, h) ELSE None]

Init ==
    /\ inventory = InitialInventory
    /\ tf_outputs = None
    /\ op = "none"
    /\ hostname = ""
    /\ result = NoResult
    /\ path = "none"
    /\ calls = 0
    /\ pc = "start"

(* the caller's view of one get_inventory call *)
DoList(cmd) ==
    LET r == get_inventory(inventory, cmd) IN
    /\ inventory' = r.inv
    /\ tf_outputs' = r.tf
    /\ path' = r.path
    /\ result' = IF r.exc = "none" THEN Printed(r.inv) ELSE Uncaught(r.exc)
    /\ op' = "list"
    /\ hostname' = ""
    /\ calls' = calls + 1

(* the caller's view of one get_host call *)
DoHost(cmd, h) ==
    LET r == get_host(inventory, cmd, h) IN
    /\ inventory' = r.inv
    /\ tf_outputs' = r.tf
    /\ path' = r.path
    /\ result' = IF r.exc = "none" THEN Printed(r.v) ELSE Uncaught(r.exc)
    /\ op' = "host"
    /\ hostname' = h
    /\ calls' = calls + 1

(* main(): args.list and args.host as argparse leaves them; host = "" *)
(* stands for a --host that is missing or empty, both false to elif    *)
Args ==
    {[list |-> TRUE, host |-> ""], [list |-> TRUE, host |-> "h1"]}
        \cup {[list |-> FALSE, host |-> h] : h \in HostNames \cup {""}}

MainList ==
    /\ pc = "start"
    /\ \E args \in Args, cmd \in Commands :
          /\ args.list
          /\ DoList(cmd)
    /\ pc' = "exit"

MainHost ==
    /\ pc = "start"
    /\ \E args \in Args, cmd \in Commands :
          /\ ~args.list
          /\ args.host # ""
          /\ DoHost(cmd, args.host)
    /\ pc' = "exit"

MainHelp ==
    /\ pc = "start"
    /\ \E args \in Args :
          /\ ~args.list
          /\ args.host = ""
    /\ result' = Help
    /\ op' = "help"
    /\ pc' = "exit"
    /\ UNCHANGED <<inventory, tf_outputs, hostname, path, calls>>

Next == MainList \/ MainHost \/ MainHelp

(* one run of the script *)
Spec == Init /\ [][Next]_vars

(* One builder object called repeatedly by a program that imports the    *)
(* class: each call runs the command again, which may print other outputs *)
ReuseSnapshots ==
    {FullFlat,
     Obj(<< <<"web_instance_public_ips", Entry(Lst(<<Str("10.0.0.2")>>))>> >>),
     Obj(<< <<"ansible_inventory", Entry(DocWeb)>> >>),
     Obj(<< <<"ansible_inventory", Entry(DocVarsOnly)>> >>),
     Obj(<< <<"ansible_inventory", Entry(Str(TextWeb))>>,
            <<"database_endpoint", Entry(Str("db.example.com"))>> >>),
     Obj(<< <<"ansible_inventory", Entry(Str("not json"))>> >>)}

ReuseCommands ==
    {Command(FALSE, 0, FALSE, EmptyDict), Command(TRUE, 1, FALSE, EmptyDict),
     Command(TRUE, 0, FALSE, EmptyDict), Command(TRUE, 0, TRUE, EmptyDict)}
      \cup {Command(TRUE, 0, TRUE, s) : s \in ReuseSnapshots}

ReuseHostNames == {"web-2", "nohost"}

CallGetInventory ==
    /\ calls < MaxCalls
    /\ \E cmd \in ReuseCommands : DoList(cmd)
    /\ UNCHANGED pc

CallGetHost ==
    /\ calls < MaxCalls
    /\ \E cmd \in ReuseCommands, h \in ReuseHostNames : DoHost(cmd, h)
    /\ UNCHANGED pc

NextBuilder == CallGetInventory \/ CallGetHost

SpecBuilder == Init /\ [][NextBuilder]_vars

----------------------------------------------------------------------------
(* Properties *)

(* the last call returned to its caller *)
Completed == op \in {"list", "host"} /\ result.kind = "json"

(* what a newly constructed builder returns for the outputs tf *)
FreshInventory(tf) ==
    IF Truthy(tf) THEN parse_ansible_inventory(Running(InitialInventory), tf)
    ELSE Traced(Running(EmptyInventory), "none")

(* the keys of a dict, as a set *)
KeySet(d) == {d.ps[i][1] : i \in 1..Len(d.ps)}

(* the names in a group's hosts list *)
GroupHosts(inv, g) == {h.s : h \in {Lookup(Lookup(inv, g), "hosts").l[i] :
                                      i \in 1..Len(Lookup(Lookup(inv, g), "hosts").l)}}

(* the groups of a document that carry a hosts list *)
GroupsWithHosts(inv) == {g \in KeySet(inv) \ {"_meta"} : HasKey(Lookup(inv, g), "hosts")}

SyntheticHosts ==
    {"database"} \cup {"web-" \o ToString(i) : i \in 1..(MaxIps + 1)}
                 \cup {"app-" \o ToString(i) : i \in 1..(MaxIps + 1)}

(* C1: for every snapshot acquired and both operations, the run ends *)
(* with a JSON document printed, never with an uncaught exception.   *)
C1_AlwaysDocument ==
    (op \in {"list", "host"} /\ tf_outputs # None) => result.kind = "json"

(* C2: in every inventory get_inventory returns, each host listed in a *)
(* group's hosts is a key of _meta.hostvars.                           *)
C2_HostsHaveHostvars ==
    Completed =>
        \A g \in GroupsWithHosts(inventory) :
            GroupHosts(inventory, g) \subseteq KeySet(HostVars(inventory))

C2_Witness ==
    /\ Completed
    /\ path = "preferred"
    /\ HasKey(inventory, "webservers")
    /\ GroupHosts(inventory, "webservers") = {"h1", "h2"}

(* C3: when acquisition yields an empty mapping, get_inventory returns *)
(* exactly the degraded document and no transformation runs.           *)
C3_DegradedDocument ==
    (op \in {"list", "host"} /\ tf_outputs = EmptyDict) =>
        /\ inventory = EmptyInventory
        /\ path = "none"
        /\ result.kind = "json"
        /\ op = "list" => result.doc = EmptyInventory

C3_Witness ==
    /\ calls = 2
    /\ op = "list"
    /\ tf_outputs = EmptyDict
    /\ result.doc = EmptyInventory

(* C4: get_host(h) returns _meta.hostvars[h] of the inventory List      *)
(* returns for the same snapshot when h is a key there and {} when not; *)
(* it raises only where List raises too, never over an unknown host.    *)
C4_HostLookup ==
    op = "host" =>
        IF tf_outputs = None THEN result.kind = "fault"
        ELSE LET list == FreshInventory(tf_outputs) IN
             IF list.exc # "none" THEN result = Uncaught(list.exc)
             ELSE /\ result.kind = "json"
                  /\ result.doc =
                        IF hostname \in KeySet(HostVars(list.inv))
                        THEN Lookup(HostVars(list.inv), hostname)
                        ELSE EmptyDict

C4_Witness ==
    /\ op = "host"
    /\ hostname = "nohost"
    /\ result = Printed(EmptyDict)
    /\ KeySet(HostVars(inventory)) = {"h1", "h2"}

(* C5: each call returns the inventory its own snapshot determines: *)
(* what a newly constructed builder returns for that snapshot, with *)
(* nothing left over from an earlier call on the same builder.      *)
C5_RebuiltEachCall ==
    (Completed /\ op = "list") => result.doc = FreshInventory(tf_outputs).inv

(* C6: with ansible_inventory in the snapshot the fallback is never   *)
(* invoked, whatever flat outputs are present and whatever the entry's *)
(* shape: no synthetic host and no fallback all.vars in the builder.   *)
C6_PreferredWins ==
    (op \in {"list", "host"} /\ tf_outputs # None
        /\ HasKey(tf_outputs, "ansible_inventory")) =>
        /\ path = "preferred"
        /\ KeySet(HostVars(inventory)) \cap SyntheticHosts = {}
        /\ \A g \in GroupsWithHosts(inventory) :
               GroupHosts(inventory, g) \cap SyntheticHosts = {}
        /\ HasKey(inventory, "all") =>
               ~HasKey(Get(Lookup(inventory, "all"), "vars", EmptyDict), "project_name")

C6_Witness ==
    /\ Completed
    /\ HasKey(tf_outputs, "ansible_inventory")
    /\ HasKey(tf_outputs, "web_instance_public_ips")
    /\ HasKey(tf_outputs, "database_endpoint")
    /\ HasKey(tf_outputs, "infrastructure_info")
    /\ HasKey(inventory, "webservers")

(* the decoded value of the ansible_inventory output of a snapshot the *)
(* preferred path completed on *)
InventoryData(tf) ==
    LET value == Lookup(Lookup(tf, "ansible_inventory"), "value") IN
    IF value.t = "str" THEN JsonLoads(value.s).v ELSE value

(* the pre-built entry's top-level "all", when it is a mapping *)
HasAll(tf) ==
    /\ InventoryData(tf).t = "obj"
    /\ HasKey(InventoryData(tf), "all")
    /\ Lookup(InventoryData(tf), "all").t = "obj"

AllOf(tf) == Lookup(InventoryData(tf), "all")

(* C7: on the preferred path, a "vars" mapping of the top-level "all" *)
(* entry is copied into all.vars, for every shape of that entry, also *)
(* one with "vars" and no "children".                                 *)
C7_GlobalVarsCopied ==
    (Completed /\ path = "preferred" /\ HasAll(tf_outputs)
        /\ HasKey(AllOf(tf_outputs), "vars")) =>
        /\ HasKey(inventory, "all")
        /\ Get(Lookup(inventory, "all"), "vars", None) = Lookup(AllOf(tf_outputs), "vars")

RecognisedGroups == <<"webservers", "appservers", "databases">>

(* the sub-groups under all.children of the pre-built entry *)
HasChildren(tf) ==
    /\ HasAll(tf)
    /\ HasKey(AllOf(tf), "children")
    /\ Lookup(AllOf(tf), "children").t = "obj"

ChildrenOf(tf) == Lookup(AllOf(tf), "children")

(* sub-group number k is present with a "hosts" mapping *)
HasHosts(tf, k) ==
    /\ HasKey(ChildrenOf(tf), RecognisedGroups[k])
    /\ HasKey(Lookup(ChildrenOf(tf), RecognisedGroups[k]), "hosts")

HostsOf(tf, k) == Lookup(Lookup(ChildrenOf(tf), RecognisedGroups[k]), "hosts")

(* group k's hosts list is the ordered list of its host keys *)
GroupListsItsKeys(tf, k) ==
    /\ HasKey(inventory, RecognisedGroups[k])
    /\ Lookup(Lookup(inventory, RecognisedGroups[k]), "hosts")
           = Lst([i \in 1..Len(HostsOf(tf, k).ps) |-> Str(HostsOf(tf, k).ps[i][1])])

(* C8 as stated: on the preferred path each recognised sub-group g with *)
(* "hosts" becomes a group listing g's host keys in order, and every    *)
(* host h of g has hostvars[h] equal to its mapping under g, also when  *)
(* h is listed under several sub-groups with different mappings.        *)
C8_HostvarsPerGroup ==
    (Completed /\ path = "preferred" /\ HasChildren(tf_outputs)) =>
        \A k \in 1..3 :
            HasHosts(tf_outputs, k) =>
                /\ GroupListsItsKeys(tf_outputs, k)
                /\ \A h \in KeySet(HostsOf(tf_outputs, k)) :
                       /\ HasKey(HostVars(inventory), h)
                       /\ Lookup(HostVars(inventory), h) = Lookup(HostsOf(tf_outputs, k), h)

(* the last recognised sub-group, in processing order, that lists h *)
LastGroupOf(tf, h) ==
    CHOOSE k \in 1..3 :
        /\ HasHosts(tf, k) /\ h \in KeySet(HostsOf(tf, k))
        /\ \A j \in 1..3 : (HasHosts(tf, j) /\ h \in KeySet(HostsOf(tf, j))) => j <= k

(* C8 amended: ... every host h of g has hostvars[h] equal to its      *)
(* mapping under the last of webservers, appservers, databases (in     *)
(* that order) that lists h; under g itself when no later one does.    *)
C8_HostvarsLastGroup ==
    (Completed /\ path = "preferred" /\ HasChildren(tf_outputs)) =>
        \A k \in 1..3 :
            HasHosts(tf_outputs, k) =>
                /\ GroupListsItsKeys(tf_outputs, k)
                /\ \A h \in KeySet(HostsOf(tf_outputs, k)) :
                       /\ HasKey(HostVars(inventory), h)
                       /\ Lookup(HostVars(inventory), h)
                              = Lookup(HostsOf(tf_outputs, LastGroupOf(tf_outputs, h)), h)

C8_Witness ==
    /\ Completed
    /\ path = "preferred"
    /\ HasChildren(tf_outputs)
    /\ HasHosts(tf_outputs, 1) /\ HasHosts(tf_outputs, 3)
    /\ Keys(HostsOf(tf_outputs, 1)) = <<"h2", "h1">>
    /\ Lookup(HostsOf(tf_outputs, 1), "h1") = HostA
    /\ Lookup(HostsOf(tf_outputs, 3), "h1") = HostB
    /\ Lookup(HostVars(inventory), "h1") = HostB

(* the address list an output holds: its "value", [] without one *)
HoldsAddressList(tf, output) ==
    /\ Get(tf, output, EmptyDict).t = "obj"
    /\ Get(Get(tf, output, EmptyDict), "value", EmptyList).t = "lst"

AddressListOf(tf, output) == Get(Get(tf, output, EmptyDict), "value", EmptyList).l

(* group g exists iff the list is non-empty; then it lists prefix-1 .. *)
(* prefix-n in order and host prefix-i has the i-th address and ubuntu *)
AddressHosts(output, g, prefix) ==
    (Completed /\ path = "fallback" /\ HoldsAddressList(tf_outputs, output)) =>
        LET ips == AddressListOf(tf_outputs, output) IN
        /\ HasKey(inventory, g) <=> Len(ips) > 0
        /\ Len(ips) > 0 =>
               Lookup(Lookup(inventory, g), "hosts")
                   = Lst([i \in 1..Len(ips) |-> Str(prefix \o ToString(i))])
        /\ \A i \in 1..Len(ips) :
               /\ HasKey(HostVars(inventory), prefix \o ToString(i))
               /\ Get(Lookup(HostVars(inventory), prefix \o ToString(i)),
                      "ansible_host", None) = ips[i]
               /\ Get(Lookup(HostVars(inventory), prefix \o ToString(i)),
                      "ansible_user", None) = Str("ubuntu")

(* C9: on the fallback path, for a web address list of length n, the *)
(* group webservers exists iff n > 0, lists web-1 .. web-n in order, *)
(* and web-i has the i-th address and ansible_user ubuntu; the same  *)
(* for the app address list, app- and appservers.                    *)
C9_AddressHosts ==
    /\ AddressHosts("web_instance_public_ips", "webservers", "web-")
    /\ AddressHosts("app_instance_private_ips", "appservers", "app-")

C9_Witness ==
    /\ Completed
    /\ path = "fallback"
    /\ HoldsAddressList(tf_outputs, "web_instance_public_ips")
    /\ AddressListOf(tf_outputs, "web_instance_public_ips")
           = <<Str("10.0.0.2"), Str("10.0.0.1")>>
    /\ HoldsAddressList(tf_outputs, "app_instance_private_ips")
    /\ AddressListOf(tf_outputs, "app_instance_private_ips") = <<>>
    /\ Lookup(Lookup(inventory, "webservers"), "hosts") = Lst(<<Str("web-1"), Str("web-2")>>)
    /\ ~HasKey(inventory, "appservers")

(* the "value" of an output entry, or default without entry or value *)
ValueOr(tf, output, default) == Get(Get(tf, output, EmptyDict), "value", default)

(* h is the text of s before its first colon *)
IsTextBeforeFirstColon(h, s) ==
    /\ \A i \in 1..Len(h) : SubSeq(h, i, i) # ":"
    /\ h = s \/ (Len(s) > Len(h) /\ SubSeq(s, 1, Len(h) + 1) = h \o ":")

(* the one host of the databases group *)
DatabaseHostAsClaimed ==
    /\ Lookup(Lookup(inventory, "databases"), "hosts") = Lst(<<Str("database")>>)
    /\ HasKey(HostVars(inventory), "database")
    /\ LET host == Lookup(HostVars(inventory), "database") IN
       /\ Get(host, "ansible_host", None).t = "str"
       /\ IsTextBeforeFirstColon(Get(host, "ansible_host", None).s,
                                 ValueOr(tf_outputs, "database_endpoint", None).s)
       /\ Get(host, "db_engine", None)
              = ValueOr(tf_outputs, "database_engine", Str("postgres"))
       /\ Get(host, "db_port", None) = ValueOr(tf_outputs, "database_port", Num(5432))

(* C10 as stated: on the fallback path the group databases exists iff *)
(* the database_endpoint entry is present; then it holds the one host *)
(* database, with ansible_host the endpoint before its first colon,   *)
(* db_engine the database_engine value or postgres, db_port the       *)
(* database_port value or 5432.                                       *)
C10_DatabaseIffEntry ==
    (Completed /\ path = "fallback") =>
        /\ HasKey(inventory, "databases") <=> HasKey(tf_outputs, "database_endpoint")
        /\ HasKey(inventory, "databases") => DatabaseHostAsClaimed

(* C10 amended: the group databases exists iff the database_endpoint *)
(* entry is present with a non-empty value; the rest as stated, the  *)
(* defaults applying when the entry or its value is absent.          *)
C10_DatabaseIffEndpoint ==
    (Completed /\ path = "fallback") =>
        /\ HasKey(inventory, "databases")
               <=> Truthy(ValueOr(tf_outputs, "database_endpoint", None))
        /\ HasKey(inventory, "databases") => DatabaseHostAsClaimed

C10_Witness ==
    /\ Completed
    /\ path = "fallback"
    /\ ValueOr(tf_outputs, "database_endpoint", None) = Str("db:54:32")
    /\ ~HasKey(tf_outputs, "database_engine")
    /\ ~HasKey(tf_outputs, "database_port")
    /\ Lookup(HostVars(inventory), "database")
           = Obj(<< <<"ansible_host", Str("db")>>, <<"db_engine", Str("postgres")>>,
                    <<"db_port", Num(5432)>> >>)

====
